---- MODULE Spec2Model ----
(***************************************************************************)
(* A model of Pawky (src/pawky.py): the engine Pawky, whose __call__ reads *)
(* files, splits them into records and dispatches hooks and rule handlers, *)
(* and the Record handed to the handlers, whose fields and text are kept   *)
(* in step by __setitem__.                                                 *)
(*                                                                         *)
(* Python strings are sequences of one-character strings.  A Python value  *)
(* that a field can hold (str, int, float) is a record with a type tag.    *)
(***************************************************************************)
EXTENDS Integers, Sequences, FiniteSets, TLC

\* ------------------------------------------------------------------ bounds
MaxFiles == 2      \* longest list of files given to one run
MaxRules == 2      \* largest rule table built by registrations
MaxWrites == 2     \* most writes handlers make to records in one run
MaxLen == 2        \* longest string a handler writes
MaxOpens == 2      \* most files opened by redirections

\* ------------------------------------------------------ values and strings
\* A str value, an int value, and a float value m / 10^e (a finite decimal).
Str(s) == [s |-> s, t |-> "str", m |-> 0, e |-> 0]
IntV(n) == [s |-> <<>>, t |-> "int", m |-> n, e |-> 0]
FloatV(m, e) == [s |-> <<>>, t |-> "float", m |-> m, e |-> e]
NoneV == [s |-> <<>>, t |-> "None", m |-> 0, e |-> 0]

Digits == <<"0", "1", "2", "3", "4", "5", "6", "7", "8", "9">>
DigitSet == {Digits[i] : i \in 1..10}
DigitVal(c) == (CHOOSE i \in 1..10 : Digits[i] = c) - 1
Whitespace == {" ", "\t", "\n"}

RECURSIVE LStrip(_)
LStrip(s) == IF s # <<>> /\ Head(s) \in Whitespace THEN LStrip(Tail(s)) ELSE s

RECURSIVE RStrip(_)
RStrip(s) ==
    IF s # <<>> /\ s[Len(s)] \in Whitespace
    THEN RStrip(SubSeq(s, 1, Len(s) - 1)) ELSE s

\* str.strip(), which int() and float() apply to their argument
Strip(s) == RStrip(LStrip(s))

RECURSIVE DecVal(_)
DecVal(s) ==
    IF s = <<>> THEN 0
    ELSE DecVal(SubSeq(s, 1, Len(s) - 1)) * 10 + DigitVal(s[Len(s)])

RECURSIVE DecStr(_)
DecStr(n) ==
    IF n < 10 THEN <<Digits[n + 1]>>
    ELSE DecStr(n \div 10) \o <<Digits[(n % 10) + 1]>>

RECURSIVE PadZero(_, _)
PadZero(s, w) == IF Len(s) >= w THEN s ELSE PadZero(<<"0">> \o s, w)

RECURSIVE Normalize(_, _)
Normalize(m, e) ==
    IF e > 0 /\ m % 10 = 0 THEN Normalize(m \div 10, e - 1) ELSE FloatV(m, e)

IsDigits(s) == s # <<>> /\ \A i \in 1..Len(s) : s[i] \in DigitSet

\* the digits of a stripped numeral after its optional sign
Unsigned(u) == IF u # <<>> /\ Head(u) \in {"+", "-"} THEN Tail(u) ELSE u

\* int(v) succeeds: a str of digits with an optional sign between optional
\* whitespace, an int, or a float (which int() truncates).  Underscores are
\* outside the alphabet of the model, and so are signed floats.
int_ok(v) == IF v.t = "str" THEN IsDigits(Unsigned(Strip(v.s))) ELSE TRUE

int_val(v) ==
    CASE v.t = "str" ->
           LET u == Strip(v.s)
           IN  IF Head(u) = "-" THEN IntV(0 - DecVal(Unsigned(u)))
               ELSE IntV(DecVal(Unsigned(u)))
      [] v.t = "int" -> v
      [] v.t = "float" -> IntV(v.m \div (10 ^ v.e))

DotCount(s) == Cardinality({i \in 1..Len(s) : s[i] = "."})
WithoutDot(s) == SelectSeq(s, LAMBDA c : c # ".")
AfterDot(s) ==
    IF DotCount(s) = 0 THEN 0
    ELSE Len(s) - (CHOOSE i \in 1..Len(s) : s[i] = ".")

\* float(v) succeeds: digits with at most one point and at least one digit.
float_ok(v) ==
    IF v.t = "str"
    THEN LET u == Strip(v.s)
         IN  /\ DotCount(u) <= 1
             /\ IsDigits(WithoutDot(u))
    ELSE TRUE

float_val(v) ==
    CASE v.t = "str" ->
           LET u == Strip(v.s) IN Normalize(DecVal(WithoutDot(u)), AfterDot(u))
      [] v.t = "int" -> FloatV(v.m, 0)
      [] v.t = "float" -> v

\* str(v): repr of a float is its shortest decimal, "1.0" for a whole number
str_of(v) ==
    CASE v.t = "str" -> v.s
      [] v.t = "int" -> DecStr(v.m)
      [] v.t = "float" ->
           IF v.e = 0 THEN DecStr(v.m) \o <<".", "0">>
           ELSE DecStr(v.m \div (10 ^ v.e)) \o <<".">>
                    \o PadZero(DecStr(v.m % (10 ^ v.e)), v.e)

\* sep.join(parts) for a sequence of strings
RECURSIVE Join(_, _)
Join(parts, sep) ==
    IF parts = <<>> THEN <<>>
    ELSE IF Len(parts) = 1 THEN parts[1]
    ELSE parts[1] \o sep \o Join(Tail(parts), sep)

\* ---------------------------------------------------------------- patterns
\* The regular expressions of the model, by their source text.
DefaultFS == "[ \\t\\n]+"
DefaultRS == "\n"
CommaFS == ","
EscapedDefaultFS == "\\[\\ \\\\t\\\\n\\]\\+"
DefaultOFS == <<" ">>
DefaultORS == <<"\n">>
IGNORECASE == FALSE

\* A pattern is a character class, possibly repeated (a trailing +), or a
\* literal text.  PatChars: the characters one match of a class consumes.
PatIsClass(p) == p \in {DefaultFS, DefaultRS, CommaFS}

PatChars(p) ==
    CASE p = DefaultFS -> {" ", "\t", "\n"}
      [] p = DefaultRS -> {"\n"}
      [] p = CommaFS -> {","}

PatPlus(p) == p = DefaultFS

\* the text a literal pattern matches
PatText(p) ==
    CASE p = EscapedDefaultFS -> <<"[", " ", "\\", "t", "\\", "n", "]", "+">>

\* re.escape(p): special characters get a backslash, a comma does not
re_escape(p) ==
    CASE p = DefaultFS -> EscapedDefaultFS
      [] p = CommaFS -> CommaFS

StartsWith(s, t) == Len(s) >= Len(t) /\ SubSeq(s, 1, Len(t)) = t

\* re.split(p, s): the pieces of s between the leftmost non-overlapping
\* matches of p; cur is the piece being read, insep tells that the previous
\* character belonged to a match that may still grow.
RECURSIVE SplitFrom(_, _, _, _, _)
SplitFrom(p, s, out, cur, insep) ==
    IF s = <<>> THEN Append(out, cur)
    ELSE IF PatIsClass(p)
    THEN IF Head(s) \in PatChars(p)
         THEN IF insep /\ PatPlus(p)
              THEN SplitFrom(p, Tail(s), out, cur, TRUE)
              ELSE SplitFrom(p, Tail(s), Append(out, cur), <<>>, TRUE)
         ELSE SplitFrom(p, Tail(s), out, Append(cur, Head(s)), FALSE)
    ELSE IF StartsWith(s, PatText(p))
         THEN SplitFrom(p, SubSeq(s, Len(PatText(p)) + 1, Len(s)),
                        Append(out, cur), <<>>, FALSE)
         ELSE SplitFrom(p, Tail(s), out, Append(cur, Head(s)), FALSE)

\* a mutant of re_split: an empty last piece is dropped
re_split_NoTrail(p, s) ==
    LET out == SplitFrom(p, s, <<>>, <<>>, FALSE)
    IN  IF out[Len(out)] = <<>> THEN SubSeq(out, 1, Len(out) - 1) ELSE out

re_split(p, s) == SplitFrom(p, s, <<>>, <<>>, FALSE)

\* the patterns of rules: a pattern that is one letter or digit
PatA == "a"
PatOne == "1"
PatLetter(p) == CASE p = PatA -> "a" [] p = PatOne -> "1"

\* str.lower() of a character of the model
Lower(c) == IF c = "A" THEN "a" ELSE c

\* re.search(p, s, re.IGNORECASE if ignorecase else 0) is not None
re_search(p, s, ignorecase) ==
    \E i \in 1..Len(s) :
        IF ignorecase THEN Lower(s[i]) = Lower(PatLetter(p))
        ELSE s[i] = PatLetter(p)

\* ------------------------------------------------------------------ inputs
None == "None"

\* The files of the file system: their content, or None when the file
\* cannot be opened.
FileNames == {"one", "two", "three", "missing"}

FileContent(fn) ==
    CASE fn = "one" -> <<"1", ".", "1", " ", "a">>
      [] fn = "two" -> <<"a", " ", "1", "\n", " ", "1">>
      [] fn = "three" -> <<"a", "\n", "\n", "1", " ", "a">>
      [] fn = "mixed" -> <<"a", ",", "1", "\n", "1", " ", " ", "a">>
      [] fn = "empty" -> <<>>
      [] fn = "trail" -> <<"a", "\n">>

Readable(fn) == fn # "missing"

RECURSIVE SeqsUpTo(_, _)
SeqsUpTo(S, n) ==
    IF n = 0 THEN {<<>>}
    ELSE LET shorter == SeqsUpTo(S, n - 1)
         IN  shorter \cup {Append(q, x) : q \in shorter, x \in S}

FileLists == SeqsUpTo(FileNames, MaxFiles)

\* what handlers write to records
Alphabet == {"1", " "}
WriteValues ==
    {Str(s) : s \in SeqsUpTo(Alphabet, MaxLen)}
        \cup {Str(<<"a">>), IntV(7), FloatV(25, 1)}

\* ------------------------------------------------------------------- state
VARIABLES
    FS, RS, OFS,            \* Pawky.FS, Pawky.RS, Pawky.OFS
    FILENAME, FNR, NR, NF,  \* Pawky.FILENAME, Pawky.FNR, Pawky.NR, Pawky.NF
    begin, mid, end,        \* the hooks: a handler, or None
    refun,                  \* the rule table, in insertion order
    autoparse,              \* Pawky.autoparse
    pc,                     \* where __call__ is
    err,                    \* the exception that ended the run, or None
    fns, fi,                \* the files of the run, the file being read
    recs, ri,               \* the records of the file, the one dispatched
    ki,                     \* the rule of refun being evaluated
    record, fields,         \* Record.record, Record.fields
    log,                    \* history: records dispatched, handlers invoked
    lastop,                 \* history: the last write to the record
    nwrites,                \* history: writes made in the run
    Record_idx,             \* Record.__idx, the cursor of the iteration
    iterh,                  \* history: what the iteration has yielded
    stdout,                 \* sys.stdout, the output target
    old_stdout,             \* Pawky.__old_stdout
    opened,                 \* the files opened for output, in order
    closed,                 \* the output targets that were closed
    output,                 \* history: what was printed, and where to
    lastreg,                \* history: the last registration
    lastcall,               \* history: the arguments of the last run
    refun_size              \* len(refun) when `for k in self.refun` began

engine == <<FS, RS, OFS, FILENAME, FNR, NR, NF, autoparse>>
hooks == <<begin, mid, end, refun>>
loop == <<pc, err, fns, fi, recs, ri, ki>>
rec == <<record, fields>>
hist == <<log, lastop, nwrites>>
iter == <<Record_idx, iterh>>
io == <<stdout, old_stdout, opened, closed, output>>
aux == <<iter, io, lastreg, lastcall, refun_size>>
vars == <<engine, hooks, loop, rec, hist, aux>>

\* ------------------------------------------------------------------ Record
\* the try/except of parse_fields for one field
Coerce(v) ==
    IF int_ok(v) THEN int_val(v)
    ELSE IF float_ok(v) THEN float_val(v)
    ELSE v

\* Record.parse_fields: the first nf fields are coerced when autoparse is on
parse_fields(flds, nf, auto) ==
    IF auto
    THEN [i \in 1..Len(flds) |-> IF i <= nf THEN Coerce(flds[i]) ELSE flds[i]]
    ELSE flds

SplitFields(fs, text) ==
    LET parts == re_split(fs, text) IN [i \in 1..Len(parts) |-> Str(parts[i])]

\* a mutant of Record_init: the record is split by the default separator
Record_init_DefaultFS(text) ==
    LET flds == SplitFields(DefaultFS, text)
    IN  /\ record' = Str(text)
        /\ NF' = Len(flds)
        /\ fields' = parse_fields(flds, Len(flds), autoparse)

\* Record.__init__
Record_init(text) ==
    LET flds == SplitFields(FS, text)
    IN  /\ record' = Str(text)
        /\ NF' = Len(flds)
        /\ fields' = parse_fields(flds, Len(flds), autoparse)

\* keys of Record.__getitem__ and Record.__setitem__: a str or an int
NameKey(s) == [s |-> s, i |-> 0, name |-> TRUE]
PosKey(i) == [s |-> <<>>, i |-> i, name |-> FALSE]

\* Record.__getattribute__ for the names that fall through to the engine
Attr(name) ==
    CASE name = <<"N", "F">> -> NF
      [] name = <<"N", "R">> -> NR
      [] name = <<"F", "N", "R">> -> FNR

\* the index a str key stands for
KeyIndex(s) ==
    LET k == IF s # <<>> /\ Head(s) \in {"$", "S", "D", "F"} THEN Tail(s) ELSE s
    IN  IF int_ok(Str(k)) THEN int_val(Str(k)).m ELSE Attr(k)

\* self.fields[i] for a Python index i: 0-based, negative from the end
ListGet(flds, i) ==
    IF i >= 0 /\ i < Len(flds) THEN [v |-> flds[i + 1], err |-> None]
    ELSE IF i < 0 /\ 0 - i <= Len(flds)
    THEN [v |-> flds[Len(flds) + i + 1], err |-> None]
    ELSE [v |-> Str(<<>>), err |-> "IndexError"]

\* Record.__getitem__: the value read, or the exception raised
Record_getitem(key) ==
    IF key.name
    THEN LET idx == KeyIndex(key.s)
         IN  IF idx = 0 THEN [v |-> record, err |-> None]
             ELSE IF idx <= NF THEN ListGet(fields, idx - 1)
             ELSE [v |-> Str(<<>>), err |-> None]
    ELSE ListGet(fields, key.i)

\* fields[idx] = value; record = OFS.join(map(str, fields)); parse_fields()
\* for a 0-based idx (negative: from the end) into flds, with NF = nf
StoreField(flds, nf, idx, value) ==
    LET pos == IF idx >= 0 THEN idx + 1 ELSE Len(flds) + idx + 1
    IN  IF pos < 1 \/ pos > Len(flds)
        THEN [NF |-> NF, err |-> "IndexError", record |-> record,
              fields |-> fields]
        ELSE LET stored == [flds EXCEPT ![pos] = value]
                 text == Join([i \in 1..Len(stored) |-> str_of(stored[i])], OFS)
             IN  [NF |-> nf, err |-> None, record |-> Str(text),
                  fields |-> parse_fields(stored, nf, autoparse)]

\* a mutant of WholeRecord: the text is rebuilt from the fields it was split to
WholeRecord_Rejoined(value) ==
    LET flds == SplitFields(FS, value.s)
    IN  [NF |-> Len(flds), err |-> None,
         record |-> Str(Join([i \in 1..Len(flds) |-> flds[i].s], OFS)),
         fields |-> parse_fields(flds, Len(flds), autoparse)]

\* record['$0'] = value: record = value; fields = re.split(FS, value);
\* NF = len(fields); parse_fields().  re.split raises for a value not a str.
WholeRecord(value) ==
    IF value.t # "str"
    THEN [NF |-> NF, err |-> "TypeError", record |-> value, fields |-> fields]
    ELSE LET flds == SplitFields(FS, value.s)
         IN  [NF |-> Len(flds), err |-> None, record |-> value,
              fields |-> parse_fields(flds, Len(flds), autoparse)]

\* a mutant of Extended: the fields are padded and NF is left as it was
Extended_StaleNF(idx) ==
    [NF |-> NF, fields |-> fields \o [i \in 1..(idx - NF) |-> Str(<<>>)]]

\* idx > NF: fields += [''] * (idx - NF); NF = idx
Extended(idx) ==
    [NF |-> idx, fields |-> fields \o [i \in 1..(idx - NF) |-> Str(<<>>)]]

\* Record.__setitem__: the record after the write, or the exception raised
SetItem(key, value) ==
    IF key.name
    THEN LET idx == KeyIndex(key.s)
         IN  IF idx = 0 THEN WholeRecord(value)
             ELSE IF idx > NF
             THEN StoreField(Extended(idx).fields, Extended(idx).NF, idx - 1,
                             value)
             ELSE StoreField(fields, NF, idx - 1, value)
    ELSE StoreField(fields, NF, key.i, value)

\* ------------------------------------------------------------------ Engine
\* An optional int (a slice's start, stop, step) is <<>> for None, or <<n>>.
\* keys given to Pawky.__setitem__
\* A key has a kind; n is the int of an int key, start, stop and step belong
\* to a slice, pat is the pattern of a str key or of a (field, str) key and
\* fld the field of the latter.
Key(kind, n, a, b, c, fld, pat) ==
    [n |-> n, kind |-> kind, fld |-> fld, pat |-> pat, start |-> a, stop |-> b,
     step |-> c]
BEGIN == Key("BEGIN", 0, <<>>, <<>>, <<>>, PosKey(0), "")
END == Key("END", 0, <<>>, <<>>, <<>>, PosKey(0), "")
Ellipsis == Key("Ellipsis", 0, <<>>, <<>>, <<>>, PosKey(0), "")
IntKey(n) == Key("int", n, <<>>, <<>>, <<>>, PosKey(0), "")
Slice(a, b, c) == Key("slice", 0, a, b, c, PosKey(0), "")
StrKey(pat) == Key("str", 0, <<>>, <<>>, <<>>, PosKey(0), pat)
FieldKey(fld, pat) == Key("tuple2", 0, <<>>, <<>>, <<>>, fld, pat)

\* the key of refun a slice is stored under: (start or 1, stop, step or 1)
SliceTuple(key) ==
    Key("tuple3", 0, IF key.start = <<>> THEN <<1>> ELSE key.start, key.stop,
        IF key.step = <<>> THEN <<1>> ELSE key.step, PosKey(0), "")

\* a mutant of DictSet: every assignment adds an entry
DictSet_Append(d, k, f) == Append(d, [k |-> k, f |-> f])

\* refun[k] = f on a dict that keeps insertion order
DictSet(d, k, f) ==
    IF \E i \in 1..Len(d) : d[i].k = k
    THEN [i \in 1..Len(d) |-> IF d[i].k = k THEN [k |-> k, f |-> f] ELSE d[i]]
    ELSE Append(d, [k |-> k, f |-> f])

\* the last write: its key and value, the index the key stood for, NF before
\* the write, and the exception raised
Op(key, value, idx, nf, e) ==
    [err |-> e, nf |-> nf, key |-> key, idx |-> idx, value |-> value,
     op |-> "write"]
NoOp ==
    [err |-> None, nf |-> 0, key |-> PosKey(0), idx |-> 0, value |-> NoneV,
     op |-> "none"]

\* an entry of the history
NoKey == IntKey(0)
\* refun[k]
DictGet(d, k) == d[CHOOSE i \in 1..Len(d) : d[i].k = k].f

\* the handler an invocation calls
Invoked(ev, key) ==
    CASE ev = "begin" -> begin
      [] ev = "mid" -> mid
      [] ev = "end" -> end
      [] ev = "rule" -> DictGet(refun, key)
      [] ev \in {"record", "FS", "RS", "new", "set"} -> None

EventAt(ev, key, file, line) ==
    [key |-> key, f |-> Invoked(ev, key), ev |-> ev, file |-> file,
     line |-> line]
Event(ev, key) == EventAt(ev, key, fi, ri)

\* print(*args, sep=sep, end=end): the text written
print(args, sep, end_) == Join(args, sep) \o end_

\* the default per-record hook: lambda *args: print(*args, sep=OFS, end=ORS),
\* called with the record
DefaultMid(text) == print(<<text>>, OFS, DefaultORS)

NoReg == [key |-> NoKey, f |-> None]
NoCall == [fs |-> None, asregex |-> TRUE]
NoIter == [out |-> <<>>, stop |-> FALSE, again |-> FALSE]
Console == 0

\* Pawky.__init__(fs, autoparse)
Pawky_init(fs, auto) ==
    /\ FS = fs /\ RS = DefaultRS /\ OFS = DefaultOFS
    /\ FILENAME = None /\ FNR = 0 /\ NR = 0 /\ NF = None
    /\ begin = None /\ mid = "print" /\ end = None /\ refun = <<>>
    /\ autoparse = auto
    /\ pc = "idle" /\ err = None /\ fns = <<>> /\ fi = 0
    /\ recs = <<>> /\ ri = 0 /\ ki = 0
    /\ record = NoneV /\ fields = <<>>
    /\ log = <<>> /\ lastop = NoOp /\ nwrites = 0
    /\ Record_idx = 0 /\ iterh = NoIter
    /\ stdout = Console /\ old_stdout = <<>> /\ opened = <<>> /\ closed = {}
    /\ output = <<>>
    /\ lastreg = NoReg
    /\ lastcall = NoCall
    /\ refun_size = 0

\* what Pawky.__setitem__(key, value) assigns
Stored(key, value) ==
    IF key = BEGIN THEN begin' = value /\ UNCHANGED <<mid, end, refun>>
    ELSE IF key = END THEN end' = value /\ UNCHANGED <<begin, mid, refun>>
    ELSE IF key = Ellipsis THEN mid' = value /\ UNCHANGED <<begin, end, refun>>
    ELSE IF key.kind = "slice"
    THEN IF key.start = <<>> /\ key.stop = <<>> /\ key.step = <<>>
         THEN mid' = value /\ UNCHANGED <<begin, end, refun>>
         ELSE /\ refun' = DictSet(refun, SliceTuple(key), value)
              /\ UNCHANGED <<begin, mid, end>>
    ELSE /\ refun' = DictSet(refun, key, value)
         /\ UNCHANGED <<begin, mid, end>>

\* Pawky.__setitem__(key, value) before a run, up to MaxRules rules
Assigned(key, value) ==
    /\ pc = "idle"
    /\ Stored(key, value)
    /\ Len(refun') <= MaxRules

\* Pawky.__setitem__(key, value), before a run
Pawky_setitem(key, value) ==
    /\ Assigned(key, value)
    /\ UNCHANGED <<engine, loop, rec, hist>>
    /\ UNCHANGED aux

\* Pawky.__setitem__(key, value), with the registration kept as history
Pawky_setitem_rule(key, value) ==
    /\ Assigned(key, value)
    /\ lastreg' = [key |-> key, f |-> value]
    /\ UNCHANGED <<engine, loop, rec, hist, iter, io, lastcall, refun_size>>

\* Pawky.__setitem__(key, value) by a handler during a run; the history
\* tells whether the rule table has grown
Pawky_setitem_handler(key, value) ==
    /\ pc \in {"in_mid", "in_rule"}
    /\ mid # "print" \/ pc = "in_rule"
    /\ nwrites < MaxWrites
    /\ nwrites' = nwrites + 1
    /\ Stored(key, value)
    /\ Len(refun') <= MaxRules + 1
    /\ log' = Append(log, Event(IF Len(refun') > Len(refun) THEN "new"
                                ELSE "set", key))
    /\ UNCHANGED <<engine, loop, rec, lastop>>
    /\ UNCHANGED aux

\* awk.RS = v before a run
Configure(v) ==
    /\ pc = "idle"
    /\ RS' = v
    /\ UNCHANGED <<FS, OFS, FILENAME, FNR, NR, NF, autoparse, hooks, loop, rec,
                   hist>>
    /\ UNCHANGED aux

\* awk.mid = None: the default hook switched off
ClearMid ==
    /\ pc = "idle"
    /\ mid # None
    /\ mid' = None
    /\ UNCHANGED <<begin, end, refun, engine, loop, rec, hist>>
    /\ UNCHANGED aux

\* Pawky.__call__, after BEGIN: FNR = 0 and the loop over the files starts
StartFiles ==
    /\ FNR' = 0
    /\ fi' = 1
    /\ pc' = "open"

\* a mutant of Call: the field separator of the engine is kept
Call_KeepFS(files, fs, asregex) ==
    /\ pc = "idle"
    /\ FS' = FS
    /\ fns' = files
    /\ IF begin # None
       THEN /\ log' = Append(log, Event("begin", NoKey))
            /\ pc' = "in_begin"
            /\ UNCHANGED <<FNR, fi>>
       ELSE /\ StartFiles
            /\ UNCHANGED log
    /\ UNCHANGED <<RS, OFS, FILENAME, NR, NF, autoparse, hooks, err, recs, ri,
                   ki, rec, lastop, nwrites>>
    /\ lastcall' = [fs |-> fs, asregex |-> asregex]
    /\ UNCHANGED <<iter, io, lastreg, refun_size>>

\* Pawky.__call__(*fns, fs, asregex) up to the BEGIN hook
Call(files, fs, asregex) ==
    /\ pc = "idle"
    /\ FS' = IF asregex THEN fs ELSE re_escape(fs)
    /\ fns' = files
    /\ IF begin # None
       THEN /\ log' = Append(log, Event("begin", NoKey))
            /\ pc' = "in_begin"
            /\ UNCHANGED <<FNR, fi>>
       ELSE /\ StartFiles
            /\ UNCHANGED log
    /\ UNCHANGED <<RS, OFS, FILENAME, NR, NF, autoparse, hooks, err, recs, ri,
                   ki, rec, lastop, nwrites>>
    /\ lastcall' = [fs |-> fs, asregex |-> asregex]
    /\ UNCHANGED <<iter, io, lastreg, refun_size>>

\* the BEGIN hook returns
ReturnBegin ==
    /\ pc = "in_begin"
    /\ StartFiles
    /\ UNCHANGED <<FS, RS, OFS, FILENAME, NR, NF, autoparse, hooks, err, fns,
                   recs, ri, ki, rec, hist>>
    /\ UNCHANGED aux

\* a mutant of OpenFile: a file that cannot be opened is skipped
OpenFile_Skip ==
    /\ pc = "open"
    /\ fi <= Len(fns)
    /\ FILENAME' = fns[fi]
    /\ IF Readable(fns[fi])
       THEN /\ NR' = 0
            /\ recs' = re_split(RS, FileContent(fns[fi]))
            /\ ri' = 0
            /\ pc' = "record"
            /\ UNCHANGED <<err, fi>>
       ELSE /\ fi' = fi + 1
            /\ UNCHANGED <<pc, err, NR, recs, ri>>
    /\ UNCHANGED <<FS, RS, OFS, FNR, NF, autoparse, hooks, fns, ki, rec, hist>>
    /\ UNCHANGED aux

\* the next file: FILENAME = fn; open; NR = 0; re.split(RS, f.read())
OpenFile ==
    /\ pc = "open"
    /\ fi <= Len(fns)
    /\ FILENAME' = fns[fi]
    /\ IF Readable(fns[fi])
       THEN /\ NR' = 0
            /\ recs' = re_split(RS, FileContent(fns[fi]))
            /\ ri' = 0
            /\ pc' = "record"
            /\ UNCHANGED err
       ELSE /\ pc' = "error"
            /\ err' = "IOError"
            /\ UNCHANGED <<NR, recs, ri>>
    /\ UNCHANGED <<FS, RS, OFS, FNR, NF, autoparse, hooks, fns, fi, ki, rec,
                   hist>>
    /\ UNCHANGED aux

\* x % y of Python: the result has the sign of the divisor
PyMod(x, y) == IF y > 0 THEN x % y ELSE 0 - ((0 - x) % (0 - y))

\* a mutant of SliceMatches: the start is excluded
SliceMatches_After(k, i) ==
    /\ k.stop = <<>> \/ i < k.stop[1]
    /\ i > k.start[1]
    /\ PyMod(i - k.start[1], k.step[1]) = 0

\* the test of a slice rule (start, stop, step) on the counter i
SliceMatches(k, i) ==
    /\ k.stop = <<>> \/ i < k.stop[1]
    /\ i >= k.start[1]
    /\ PyMod(i - k.start[1], k.step[1]) = 0

\* does the rule k match the record being dispatched; raw is the text the
\* file was split to, the loop variable `record`
Matches(k) ==
    CASE k.kind = "int" ->
           (k.n > 0 /\ k.n = NR) \/ (k.n < 0 /\ 0 - k.n = FNR)
      [] k.kind = "str" -> re_search(k.pat, recs[ri], IGNORECASE)
      [] k.kind = "tuple2" ->
           re_search(k.pat, str_of(Record_getitem(k.fld).v), IGNORECASE)
      [] k.kind = "tuple3" ->
           SliceMatches(k, IF k.step[1] > 0 THEN NR ELSE FNR)

\* the next record of the file: both counters, Record(self, record), and
\* the per-record hook; or the end of the file
NextRecord ==
    /\ pc = "record"
    /\ IF ri < Len(recs)
       THEN /\ ri' = ri + 1
            /\ FNR' = FNR + 1
            /\ NR' = NR + 1
            /\ Record_init(recs[ri + 1])
            /\ lastop' = NoOp
            /\ IF mid # None
               THEN /\ log' = log \o <<EventAt("record", NoKey, fi, ri + 1),
                                       EventAt("mid", NoKey, fi, ri + 1)>>
                    /\ pc' = "in_mid"
                    /\ UNCHANGED <<ki, refun_size>>
               ELSE /\ log' = Append(log, EventAt("record", NoKey, fi, ri + 1))
                    /\ pc' = "rules"
                    /\ ki' = 1
                    /\ refun_size' = Len(refun)
            /\ output' =
                   IF mid = "print"
                   THEN Append(output, [text |-> DefaultMid(recs[ri + 1]),
                                        to |-> stdout])
                   ELSE output
            /\ Record_idx' = 0
            /\ iterh' = NoIter
            /\ UNCHANGED fi
       ELSE /\ fi' = fi + 1
            /\ pc' = "open"
            /\ UNCHANGED <<ri, FNR, NR, NF, rec, log, lastop, ki, output, iter,
                           refun_size>>
    /\ UNCHANGED <<stdout, old_stdout, opened, closed, lastreg, lastcall>>
    /\ UNCHANGED <<FS, RS, OFS, FILENAME, autoparse, hooks, err, fns, recs,
                   nwrites>>

\* a mutant of ReturnMid: the loop over the rules starts at the second rule
ReturnMid_SkipFirst ==
    /\ pc = "in_mid"
    /\ pc' = "rules"
    /\ ki' = 2
    /\ refun_size' = Len(refun)
    /\ UNCHANGED <<engine, hooks, err, fns, fi, recs, ri, rec, hist>>
    /\ UNCHANGED <<iter, io, lastreg, lastcall>>

\* the per-record hook returns
ReturnMid ==
    /\ pc = "in_mid"
    /\ pc' = "rules"
    /\ ki' = 1
    /\ refun_size' = Len(refun)
    /\ UNCHANGED <<engine, hooks, err, fns, fi, recs, ri, rec, hist>>
    /\ UNCHANGED <<iter, io, lastreg, lastcall>>

\* a mutant of EvalRule: the loop goes on over a dict that has grown
EvalRule_Grown ==
    /\ pc = "rules"
    /\ IF ki <= Len(refun)
       THEN /\ IF Matches(refun[ki].k)
               THEN /\ log' = Append(log, Event("rule", refun[ki].k))
                    /\ pc' = "in_rule"
                    /\ UNCHANGED ki
               ELSE /\ ki' = ki + 1
                    /\ UNCHANGED <<pc, log>>
            /\ UNCHANGED refun_size
       ELSE /\ pc' = "record"
            /\ refun_size' = 0
            /\ UNCHANGED <<ki, log>>
    /\ UNCHANGED <<engine, hooks, err, fns, fi, recs, ri, rec, lastop, nwrites>>
    /\ UNCHANGED <<iter, io, lastreg, lastcall>>

\* one turn of `for k in self.refun`: a dict whose size has changed since the
\* loop began raises RuntimeError; else the handler of a matching rule is
\* invoked; after the last rule the loop over the records goes on
EvalRule ==
    /\ pc = "rules"
    /\ IF Len(refun) # refun_size
       THEN /\ pc' = "error"
            /\ err' = "RuntimeError"
            /\ UNCHANGED <<ki, log, refun_size>>
       ELSE /\ IF ki <= Len(refun)
               THEN /\ IF Matches(refun[ki].k)
                       THEN /\ log' = Append(log, Event("rule", refun[ki].k))
                            /\ pc' = "in_rule"
                            /\ UNCHANGED ki
                       ELSE /\ ki' = ki + 1
                            /\ UNCHANGED <<pc, log>>
                    /\ UNCHANGED refun_size
               ELSE /\ pc' = "record"
                    /\ refun_size' = 0
                    /\ UNCHANGED <<ki, log>>
            /\ UNCHANGED err
    /\ UNCHANGED <<engine, hooks, fns, fi, recs, ri, rec, lastop, nwrites>>
    /\ UNCHANGED <<iter, io, lastreg, lastcall>>

\* a rule handler returns
ReturnRule ==
    /\ pc = "in_rule"
    /\ pc' = "rules"
    /\ ki' = ki + 1
    /\ UNCHANGED <<engine, hooks, err, fns, fi, recs, ri, rec, hist>>
    /\ UNCHANGED aux

\* a mutant of CallEnd: the loop over the files ends one file early
CallEnd_Early ==
    /\ pc = "open"
    /\ fi >= Len(fns)
    /\ IF end # None
       THEN /\ log' = Append(log, Event("end", NoKey))
            /\ pc' = "in_end"
       ELSE /\ pc' = "done"
            /\ UNCHANGED log
    /\ UNCHANGED <<engine, hooks, err, fns, fi, recs, ri, ki, rec, lastop,
                   nwrites>>
    /\ UNCHANGED aux

\* after the last file: the END hook
CallEnd ==
    /\ pc = "open"
    /\ fi > Len(fns)
    /\ IF end # None
       THEN /\ log' = Append(log, Event("end", NoKey))
            /\ pc' = "in_end"
       ELSE /\ pc' = "done"
            /\ UNCHANGED log
    /\ UNCHANGED <<engine, hooks, err, fns, fi, recs, ri, ki, rec, lastop,
                   nwrites>>
    /\ UNCHANGED aux

\* the END hook returns, and with it __call__
ReturnEnd ==
    /\ pc = "in_end"
    /\ pc' = "done"
    /\ UNCHANGED <<engine, hooks, err, fns, fi, recs, ri, ki, rec, hist>>
    /\ UNCHANGED aux

\* a handler changes a separator of the engine: awk.FS = v, awk.RS = v
SetFS(v) ==
    /\ pc \in {"in_mid", "in_rule"}
    /\ mid # "print" \/ pc = "in_rule"
    /\ nwrites < MaxWrites
    /\ nwrites' = nwrites + 1
    /\ FS' = v
    /\ log' = Append(log, Event("FS", NoKey))
    /\ UNCHANGED <<RS, OFS, FILENAME, FNR, NR, NF, autoparse, hooks, loop, rec,
                   lastop>>
    /\ UNCHANGED aux

SetRS(v) ==
    /\ pc \in {"in_mid", "in_rule"}
    /\ mid # "print" \/ pc = "in_rule"
    /\ nwrites < MaxWrites
    /\ nwrites' = nwrites + 1
    /\ RS' = v
    /\ log' = Append(log, Event("RS", NoKey))
    /\ UNCHANGED <<FS, OFS, FILENAME, FNR, NR, NF, autoparse, hooks, loop, rec,
                   lastop>>
    /\ UNCHANGED aux

\* __call__ has returned and the engine is used again; the history of the
\* run is dropped
Return ==
    /\ pc = "done"
    /\ pc' = "idle"
    /\ log' = <<>> /\ lastop' = NoOp /\ nwrites' = 0
    /\ output' = <<>>
    /\ UNCHANGED <<engine, hooks, err, fns, fi, recs, ri, ki, rec, iter>>
    /\ UNCHANGED <<stdout, old_stdout, opened, closed, lastreg, lastcall,
                   refun_size>>

\* open(value, mode) of a path whose directory does not exist raises
CanOpen(value) == value # "nodir/out"

\* the last redirection: what was asked and the exception raised
RedirectOp(value, e) ==
    [NoOp EXCEPT !.op = IF value = None THEN "reset" ELSE "redirect",
                 !.err = e]

\* Pawky.__redirect_stdout(value, mode): awk > value (mode "w"), awk >> value
\* (mode "a"); sys.stdout is the console or the n-th file opened
redirect_stdout(value, mode) ==
    /\ pc = "idle"
    /\ IF value = None
       THEN /\ IF old_stdout # <<>>
               THEN /\ closed' = closed \cup {stdout}
                    /\ stdout' = old_stdout[1]
                    /\ old_stdout' = <<>>
               ELSE UNCHANGED <<stdout, old_stdout, closed>>
            /\ lastop' = RedirectOp(value, None)
            /\ UNCHANGED opened
       ELSE /\ Len(opened) < MaxOpens
            /\ old_stdout' = IF old_stdout = <<>> THEN <<stdout>> ELSE old_stdout
            /\ IF CanOpen(value)
               THEN /\ opened' = Append(opened, [mode |-> mode, path |-> value])
                    /\ stdout' = Len(opened) + 1
                    /\ lastop' = RedirectOp(value, None)
               ELSE /\ lastop' = RedirectOp(value, "FileNotFoundError")
                    /\ UNCHANGED <<stdout, opened>>
            /\ UNCHANGED closed
    /\ UNCHANGED <<engine, hooks, loop, rec, log, nwrites, iter, output,
                   lastreg, lastcall, refun_size>>

\* a handler that holds the record writes to it: record[key] = value; an
\* exception of the write leaves the handler and ends the run
Record_setitem(key, value) ==
    /\ pc \in {"in_mid", "in_rule"}
    /\ mid # "print" \/ pc = "in_rule"
    /\ nwrites < MaxWrites
    /\ nwrites' = nwrites + 1
    /\ LET r == SetItem(key, value)
       IN  /\ record' = r.record
           /\ fields' = r.fields
           /\ NF' = r.NF
           /\ lastop' = Op(key, value,
                           IF key.name THEN KeyIndex(key.s) ELSE key.i, NF,
                           r.err)
           /\ IF r.err = None
              THEN UNCHANGED <<pc, err>>
              ELSE pc' = "error" /\ err' = r.err
    /\ UNCHANGED <<FS, RS, OFS, FILENAME, FNR, NR, autoparse, hooks, fns, fi,
                   recs, ri, ki, log>>
    /\ UNCHANGED aux

\* the last read: its key, the value read, the index the key stood for, NF,
\* and the exception raised
ReadOp(key, r) ==
    [err |-> r.err, nf |-> NF, key |-> key,
     idx |-> IF key.name THEN KeyIndex(key.s) ELSE key.i, value |-> r.v,
     op |-> "read"]

\* a handler that holds the record reads from it: record[key]; an exception
\* of the read leaves the handler and ends the run
Record_read(key) ==
    /\ pc \in {"in_mid", "in_rule"}
    /\ mid # "print" \/ pc = "in_rule"
    /\ LET r == Record_getitem(key)
       IN  /\ lastop' = ReadOp(key, r)
           /\ IF r.err = None
              THEN UNCHANGED <<pc, err>>
              ELSE pc' = "error" /\ err' = r.err
    /\ UNCHANGED <<engine, hooks, fns, fi, recs, ri, ki, rec, log, nwrites,
                   aux>>

\* a mutant of Record_iter: the cursor is left where it is
Record_iter_NoReset ==
    /\ pc \in {"in_mid", "in_rule"}
    /\ mid # "print" \/ pc = "in_rule"
    /\ Record_idx' = Record_idx
    /\ iterh' = [out |-> <<>>, stop |-> FALSE, again |-> Record_idx > 0]
    /\ UNCHANGED <<engine, hooks, loop, rec, hist, io, lastreg, lastcall,
                   refun_size>>

\* Record.__iter__: a handler starts an iteration over the record
Record_iter ==
    /\ pc \in {"in_mid", "in_rule"}
    /\ mid # "print" \/ pc = "in_rule"
    /\ Record_idx' = 0
    /\ iterh' = [out |-> <<>>, stop |-> FALSE, again |-> Record_idx > 0]
    /\ UNCHANGED <<engine, hooks, loop, rec, hist, io, lastreg, lastcall,
                   refun_size>>

\* Record.__next__: the next field, or StopIteration
Record_next ==
    /\ pc \in {"in_mid", "in_rule"}
    /\ mid # "print" \/ pc = "in_rule"
    /\ IF Record_idx < NF
       THEN /\ iterh' = [iterh EXCEPT !.out = Append(@, fields[Record_idx + 1])]
            /\ Record_idx' = Record_idx + 1
       ELSE /\ iterh' = [iterh EXCEPT !.stop = TRUE]
            /\ UNCHANGED Record_idx
    /\ UNCHANGED <<engine, hooks, loop, rec, hist, io, lastreg, lastcall,
                   refun_size>>

\* ---------------------------------------------------------- specifications
Handlers == {"f"}
RegKeys ==
    {BEGIN, END, Ellipsis, IntKey(3), IntKey(0 - 2),
     Slice(<<2>>, <<>>, <<>>), Slice(<<1>>, <<>>, <<0 - 2>>)}

Init == Pawky_init(DefaultFS, FALSE)

Register == \E key \in RegKeys, f \in Handlers : Pawky_setitem(key, f)

Run == \E files \in FileLists : Call(files, DefaultFS, TRUE)

Next ==
    \/ Register
    \/ ClearMid
    \/ Run
    \/ ReturnBegin
    \/ OpenFile
    \/ NextRecord
    \/ ReturnMid
    \/ EvalRule
    \/ ReturnRule
    \/ CallEnd
    \/ ReturnEnd

Spec == Init /\ [][Next]_vars

\* The engine with a per-record hook (awk[...] = f) that writes to the
\* records of one file.
WriteKeys ==
    {NameKey(<<"$", "0">>), NameKey(<<"1">>), NameKey(<<"S", "3">>),
     NameKey(<<"$", "N", "F">>), PosKey(0), PosKey(2)}

InitRecord ==
    \E auto \in BOOLEAN : Pawky_init(DefaultFS, auto)

RunOne == \E fn \in FileNames : Call(<<fn>>, DefaultFS, TRUE)

Write == \E key \in WriteKeys, value \in WriteValues : Record_setitem(key, value)

RegisterHook == Pawky_setitem(Ellipsis, "f")

NextRecordSpec ==
    \/ RegisterHook
    \/ RunOne
    \/ OpenFile
    \/ NextRecord
    \/ ReturnMid
    \/ EvalRule
    \/ Write
    \/ CallEnd

SpecRecord == InitRecord /\ [][NextRecordSpec]_vars

\* The engine with a per-record hook that reads the records of one file
\* and iterates over them.
ReadKeys ==
    {NameKey(<<"$", "0">>), NameKey(<<"1">>), NameKey(<<"S", "2">>),
     NameKey(<<"D", "3">>), NameKey(<<"$", "N", "F">>),
     NameKey(<<"$", "-", "1">>), NameKey(<<"$", "-", "3">>),
     PosKey(0), PosKey(1), PosKey(2), PosKey(0 - 1)}

Read == \E key \in ReadKeys : Record_read(key)

NextAccess ==
    \/ RegisterHook
    \/ RunOne
    \/ OpenFile
    \/ NextRecord
    \/ ReturnMid
    \/ EvalRule
    \/ CallEnd
    \/ Read
    \/ Record_iter
    \/ Record_next

SpecAccess == InitRecord /\ [][NextAccess]_vars

\* The engine with rules registered under two handlers, some of them
\* again, and then run.
RuleHandlers == {"f", "g"}
RuleKeys ==
    {IntKey(2), StrKey(PatA),
     Slice(<<>>, <<3>>, <<>>), Slice(<<1>>, <<3>>, <<1>>),
     Slice(<<2>>, <<>>, <<0 - 2>>), Slice(<<1>>, <<4>>, <<2>>)}
RuleFiles == {<<"three">>, <<"two", "three">>}

RegisterRule ==
    \E key \in RuleKeys, f \in RuleHandlers : Pawky_setitem_rule(key, f)

RunRules == \E files \in RuleFiles : Call(files, DefaultFS, TRUE)

NextRules ==
    \/ RegisterRule
    \/ RunRules
    \/ OpenFile
    \/ NextRecord
    \/ ReturnMid
    \/ EvalRule
    \/ ReturnRule
    \/ CallEnd

SpecRules == Init /\ [][NextRules]_vars

\* The engine with pattern rules on the whole record, and handlers (the
\* per-record hook and the rule handlers) that rewrite the records of one
\* file.
PatternKeys ==
    {Ellipsis, StrKey(PatA), FieldKey(NameKey(<<"$", "0">>), PatA)}
RewriteKeys == {NameKey(<<"$", "0">>), NameKey(<<"1">>)}
RewriteValues == {Str(<<"1">>), Str(<<"a">>)}

RegisterPattern == \E key \in PatternKeys : Pawky_setitem(key, "f")

Rewrite ==
    \E key \in RewriteKeys, value \in RewriteValues : Record_setitem(key, value)

NextPattern ==
    \/ RegisterPattern
    \/ RunOne
    \/ OpenFile
    \/ NextRecord
    \/ ReturnMid
    \/ EvalRule
    \/ ReturnRule
    \/ Rewrite
    \/ CallEnd

SpecPattern == Init /\ [][NextPattern]_vars

\* The engine constructed with a field separator and run, more than once,
\* with a separator argument, with a rule handler on every record that
\* changes the separators.
Separators == {DefaultFS, CommaFS}
RecordSeparators == {DefaultRS, CommaFS}
SepFiles == {<<"mixed">>, <<"two", "mixed">>}

InitSep == \E fs \in Separators : Pawky_init(fs, FALSE)

RegisterSep == Pawky_setitem(Slice(<<1>>, <<>>, <<>>), "f")

RunSep ==
    \E files \in SepFiles, fs \in Separators, asregex \in BOOLEAN :
        Call(files, fs, asregex)

ChangeFS == \E v \in Separators : SetFS(v)

ChangeRS == \E v \in RecordSeparators : SetRS(v)

NextSep ==
    \/ RegisterSep
    \/ RunSep
    \/ OpenFile
    \/ NextRecord
    \/ ReturnMid
    \/ EvalRule
    \/ ReturnRule
    \/ ChangeFS
    \/ ChangeRS
    \/ CallEnd
    \/ Return

SpecSep == InitSep /\ [][NextSep]_vars

\* The engine with its output redirected and reset, before a run.
Paths == {"out", "log", "nodir/out"}
Modes == {"w", "a"}

Redirect == \E value \in Paths, mode \in Modes : redirect_stdout(value, mode)

Reset == \E mode \in Modes : redirect_stdout(None, mode)

NextRedirect ==
    \/ Redirect
    \/ Reset

SpecRedirect == Init /\ [][NextRedirect]_vars

\* The engine with hooks and rules registered under f before a run, and
\* rules registered under g by the handlers of the run.
DispatchRules ==
    {IntKey(2), Slice(<<1>>, <<>>, <<>>), Slice(<<>>, <<3>>, <<>>)}
DispatchKeys == {END, Ellipsis} \cup DispatchRules

RegisterDispatch == \E key \in DispatchKeys : Pawky_setitem(key, "f")

RegisterInHandler == \E key \in DispatchRules : Pawky_setitem_handler(key, "g")

RunDispatch == Call(<<"two">>, DefaultFS, TRUE)

NextDispatch ==
    \/ RegisterDispatch
    \/ RunDispatch
    \/ OpenFile
    \/ NextRecord
    \/ ReturnMid
    \/ EvalRule
    \/ ReturnRule
    \/ RegisterInHandler
    \/ CallEnd
    \/ ReturnEnd

SpecDispatch == Init /\ [][NextDispatch]_vars

\* The engine with a record separator set, with or without the default
\* hook and a rule for every record, run on files that are empty, end with
\* a separator or hold two separators in a row.
ReadFiles == {"empty", "trail", "three", "mixed"}
ReadLists == SeqsUpTo(ReadFiles, MaxFiles)

ConfigureRS == \E v \in RecordSeparators : Configure(v)

RegisterEvery == Pawky_setitem(Slice(<<1>>, <<>>, <<>>), "f")

RunFiles == \E files \in ReadLists : Call(files, DefaultFS, TRUE)

NextFiles ==
    \/ ConfigureRS
    \/ RegisterEvery
    \/ ClearMid
    \/ RunFiles
    \/ OpenFile
    \/ NextRecord
    \/ ReturnMid
    \/ EvalRule
    \/ ReturnRule
    \/ CallEnd

SpecFiles == Init /\ [][NextFiles]_vars

\* ------------------------------------------------------------------ claims
\* positions of the history where a record was dispatched
RecordAt(j) == log[j].ev = "record"

\* records dispatched up to position j of the history: all, and of file f
GlobalPos(j) == Cardinality({i \in 1..j : RecordAt(i)})
FilePos(j, f) == Cardinality({i \in 1..j : RecordAt(i) /\ log[i].file = f})
Dispatched == GlobalPos(Len(log))

InHandler == pc \in {"in_begin", "in_mid", "in_rule", "in_end"}

\* the records of the first n files of the run, as (file, line), in order
NumRecords(fn) == Len(re_split(DefaultRS, FileContent(fn)))

RECURSIVE RecordsOf(_)
RecordsOf(n) ==
    IF n = 0 THEN <<>>
    ELSE RecordsOf(n - 1) \o [l \in 1..NumRecords(fns[n]) |-> <<n, l>>]

\* the records the history says were dispatched, as (file, line), in order
RECURSIVE LoggedRecords(_)
LoggedRecords(j) ==
    IF j = 0 THEN <<>>
    ELSE IF RecordAt(j)
    THEN Append(LoggedRecords(j - 1), <<log[j].file, log[j].line>>)
    ELSE LoggedRecords(j - 1)

\* the handler of rule k was invoked for the record (f, l)
Fired(k, f, l) ==
    \E j \in 1..Len(log) :
        log[j].ev = "rule" /\ log[j].key = k /\ log[j].file = f
            /\ log[j].line = l

TimesFired(k) ==
    Cardinality({j \in 1..Len(log) : log[j].ev = "rule" /\ log[j].key = k})

Registered(k) == \E i \in 1..Len(refun) : refun[i].k = k

\* C1: whenever a record exists, during a run and after every write to it,
\* the number of its fields is the engine's NF.
C1_FieldCount == record # NoneV => Len(fields) = NF

\* C1 witness: a name-style write to an index beyond NF has lengthened the
\* record
C1_Witness ==
    /\ lastop.op = "write" /\ lastop.err = None
    /\ lastop.key.name /\ lastop.idx > lastop.nf
    /\ Len(fields) = lastop.idx

\* C2: at every hook or handler invocation NR is the number of records
\* dispatched so far in the run and FNR the number dispatched so far in the
\* current file.
C2_Counters ==
    /\ pc \in {"in_mid", "in_rule"} =>
           /\ NR = Dispatched
           /\ FNR = FilePos(Len(log), fi)
    /\ pc = "in_end" => NR = Dispatched

\* C3: a rule under a positive integer n fires exactly on the n-th record of
\* the run, counted across the files.
C3_AtGlobalLine ==
    /\ \A j \in 1..Len(log) :
           (log[j].ev = "rule" /\ log[j].key.kind = "int" /\ log[j].key.n > 0)
               => GlobalPos(j) = log[j].key.n
    /\ pc = "done" =>
           \A i \in 1..Len(refun) :
               (refun[i].k.kind = "int" /\ refun[i].k.n > 0) =>
                   TimesFired(refun[i].k) =
                       IF Dispatched >= refun[i].k.n THEN 1 ELSE 0

\* C4: a rule under a negative integer -m fires once for every file with at
\* least m records, on that file's m-th record, and on no other record.
C4_AtFileLine ==
    /\ \A j \in 1..Len(log) :
           (log[j].ev = "rule" /\ log[j].key.kind = "int" /\ log[j].key.n < 0)
               => log[j].line = 0 - log[j].key.n
    /\ pc = "done" =>
           \A i \in 1..Len(refun) :
               (refun[i].k.kind = "int" /\ refun[i].k.n < 0) =>
                   \A f \in 1..Len(fns) :
                       NumRecords(fns[f]) >= 0 - refun[i].k.n =>
                           Fired(refun[i].k, f, 0 - refun[i].k.n)

\* the range rule k includes the index i
InRange(k, i) ==
    LET step == IF k.step[1] > 0 THEN k.step[1] ELSE 0 - k.step[1]
    IN  /\ k.stop = <<>> \/ i < k.stop[1]
        /\ i >= k.start[1]
        /\ (i - k.start[1]) % step = 0

\* C5: a range rule with a positive stride is indexed across the files:
\* Range(2, None, 1) fires on every record of the run but the very first.
C5_RangeGlobal ==
    pc = "done" =>
        \A i \in 1..Len(refun) :
            (refun[i].k.kind = "tuple3" /\ refun[i].k.step[1] > 0) =>
                \A j \in 1..Len(log) :
                    RecordAt(j) =>
                        (Fired(refun[i].k, log[j].file, log[j].line)
                            <=> InRange(refun[i].k, GlobalPos(j)))

\* C6: a range rule with a negative stride is indexed per file:
\* Range(1, None, -2) fires on the 1st, 3rd, 5th, ... record of each file.
C6_RangeFile ==
    pc = "done" =>
        \A i \in 1..Len(refun) :
            (refun[i].k.kind = "tuple3" /\ refun[i].k.step[1] < 0) =>
                \A j \in 1..Len(log) :
                    RecordAt(j) =>
                        (Fired(refun[i].k, log[j].file, log[j].line)
                            <=> InRange(refun[i].k, log[j].line))

\* the entries of the history of a kind
CountOf(ev) == Cardinality({j \in 1..Len(log) : log[j].ev = ev})

\* (file, line) of entry i is not after that of entry j
NotAfter(i, j) ==
    \/ log[i].file < log[j].file
    \/ log[i].file = log[j].file /\ log[i].line <= log[j].line

\* C7: in a run that completes, BEGIN (if set) is invoked once, first; END
\* (if set) once, last; the records are dispatched file by file in order;
\* the per-record hook (if set) once per record before its rule handlers;
\* and nothing is invoked for a later record before an earlier one.
C7_Order ==
    pc = "done" =>
        /\ CountOf("begin") = IF begin # None THEN 1 ELSE 0
        /\ begin # None => log[1].ev = "begin"
        /\ CountOf("end") = IF end # None THEN 1 ELSE 0
        /\ end # None => log[Len(log)].ev = "end"
        /\ LoggedRecords(Len(log)) = RecordsOf(Len(fns))
        /\ CountOf("mid") = IF mid # None THEN Dispatched ELSE 0
        /\ \A j \in 1..Len(log) :
               /\ (RecordAt(j) /\ mid # None) =>
                      /\ j < Len(log)
                      /\ log[j + 1].ev = "mid"
                      /\ log[j + 1].file = log[j].file
                      /\ log[j + 1].line = log[j].line
               /\ log[j].ev \in {"mid", "rule"} =>
                      /\ \E i \in 1..(j - 1) :
                             /\ RecordAt(i)
                             /\ log[i].file = log[j].file
                             /\ log[i].line = log[j].line
                      /\ \A i \in 1..(j - 1) :
                             log[i].ev \in {"record", "mid", "rule"} =>
                                 NotAfter(i, j)

\* C7 witness: a completed run over two files with all three hooks set and
\* a rule handler invoked
C7_Witness ==
    /\ pc = "done" /\ Len(fns) = 2 /\ Readable(fns[1]) /\ Readable(fns[2])
    /\ begin # None /\ mid # None /\ end # None
    /\ CountOf("rule") > 0

\* C8: when a file of the list cannot be opened the run aborts: no record
\* of that file or a later one is dispatched, END is not invoked, and the
\* records of the files before it have all been dispatched.
C8_Unreadable ==
    /\ \A f \in 1..Len(fns) :
           ~Readable(fns[f]) =>
               /\ pc \notin {"in_end", "done"}
               /\ CountOf("end") = 0
               /\ \A j \in 1..Len(log) : log[j].ev # "begin" => log[j].file < f
    /\ (pc = "error" /\ err = "IOError") =>
           /\ ~Readable(fns[fi])
           /\ LoggedRecords(Len(log)) = RecordsOf(fi - 1)

\* C8 witness: the second file cannot be opened, after the records of the
\* first were dispatched
C8_Witness ==
    /\ pc = "error" /\ err = "IOError" /\ fi = 2
    /\ Dispatched = NumRecords(fns[1])
    /\ end # None

\* the last write was to one of the fields the record had
WroteField ==
    /\ lastop.op = "write" /\ lastop.err = None
    /\ IF lastop.key.name
       THEN 1 <= lastop.idx /\ lastop.idx <= lastop.nf
       ELSE 0 <= lastop.idx /\ lastop.idx < lastop.nf

\* C9: after a write to a field k in 1..NF, reading the whole record gives
\* the join, with OFS, of the string forms of the fields as they now are.
C9_RecordIsJoin ==
    WroteField =>
        str_of(Record_getitem(NameKey(<<"$", "0">>)).v)
            = Join([i \in 1..Len(fields) |-> str_of(fields[i])], OFS)

\* runs of whitespace in s, the matches of the default field separator
SeparatorRuns(s) ==
    Cardinality({i \in 1..Len(s) :
                    /\ s[i] \in Whitespace
                    /\ i = 1 \/ s[i - 1] \notin Whitespace})

\* C10: after a str is written to field 0, reading field 0 gives exactly
\* that str, with autoparse on or off, the fields are the pieces of the new
\* text between the field separators, and NF is their number.
C10_WholeRecord ==
    (/\ lastop.op = "write" /\ lastop.err = None
     /\ lastop.key.name /\ lastop.idx = 0) =>
        /\ Record_getitem(NameKey(<<"$", "0">>)) =
               [v |-> lastop.value, err |-> None]
        /\ fields = parse_fields(SplitFields(FS, lastop.value.s),
                                 Len(fields), autoparse)
        /\ NF = Len(fields)
        /\ FS = DefaultFS => NF = SeparatorRuns(lastop.value.s) + 1

\* C10 witness: a text with leading whitespace and two separators was
\* written and split to three fields
C10_Witness ==
    /\ lastop.op = "write" /\ lastop.err = None
    /\ lastop.key.name /\ lastop.idx = 0
    /\ lastop.value = Str(<<" ", " ">>) \/ lastop.value = Str(<<" ", "1">>)
    /\ lastop.value # Str(Join([i \in 1..Len(fields) |-> str_of(fields[i])],
                               OFS))

\* C11: a name-style read never raises: it gives the record for index 0,
\* field i for 1 <= i <= NF and the empty string for every other index; a
\* positional read with an index >= NF raises IndexError.
C11_Reads ==
    lastop.op = "read" =>
        IF lastop.key.name
        THEN /\ lastop.err = None
             /\ lastop.idx = 0 => lastop.value = record
             /\ (1 <= lastop.idx /\ lastop.idx <= NF) =>
                    lastop.value = fields[lastop.idx]
             /\ (lastop.idx < 0 \/ lastop.idx > NF) =>
                    lastop.value = Str(<<>>)
        ELSE lastop.idx >= NF => lastop.err = "IndexError"

\* C18: an iteration yields the fields 1..NF in order and then stops; an
\* iteration started again, after the end or part-way, yields from field 1.
C18_Iteration ==
    record # NoneV =>
        /\ Record_idx <= NF
        /\ iterh.out = [i \in 1..Record_idx |-> fields[i]]
        /\ iterh.stop => iterh.out = fields

\* C18 witness: an iteration started again part-way has yielded both fields
\* of a record and stopped
C18_Witness ==
    /\ iterh.again /\ iterh.stop
    /\ Len(iterh.out) = 2
    /\ iterh.out[1] # iterh.out[2]

\* the keys of a rule table, in its order
KeysOf(d) == [i \in 1..Len(d) |-> d[i].k]

\* the key of the table a registration is stored under: a slice with its
\* omitted start and step taken as 1
Defaulted(key) ==
    IF key.kind = "slice"
    THEN Key("tuple3", 0, IF key.start = <<>> THEN <<1>> ELSE key.start,
             key.stop, IF key.step = <<>> THEN <<1>> ELSE key.step,
             PosKey(0), "")
    ELSE key

\* C12: the rule table holds one handler for each distinct key, that of the
\* latest registration under the key (slices compared after defaulting
\* start and step to 1), and a run invokes that handler for the rule.
C12_LastWins ==
    /\ [](\A i, j \in 1..Len(refun) : refun[i].k = refun[j].k => i = j)
    /\ [](\A j \in 1..Len(log) :
              log[j].ev = "rule" =>
                  \E i \in 1..Len(refun) :
                      refun[i].k = log[j].key /\ refun[i].f = log[j].f)
    /\ [][lastreg' # lastreg =>
              LET k == Defaulted(lastreg'.key)
              IN  /\ \E i \in 1..Len(refun') :
                         refun'[i] = [k |-> k, f |-> lastreg'.f]
                  /\ \A i \in 1..Len(refun) :
                         refun[i].k # k =>
                             \E j \in 1..Len(refun') : refun'[j] = refun[i]
                  /\ \A j \in 1..Len(refun') :
                         refun'[j].k # k =>
                             \E i \in 1..Len(refun) : refun[i] = refun'[j]]_vars

\* C12 witness: a rule registered under f and registered again, by an equal
\* slice, under g was invoked in a run
C12_Witness ==
    /\ lastreg = [key |-> Slice(<<1>>, <<3>>, <<1>>), f |-> "g"]
    /\ Len(refun) = 2
    /\ refun[1] = [k |-> Defaulted(Slice(<<>>, <<3>>, <<>>)), f |-> "g"]
    /\ \E j \in 1..Len(log) :
           log[j].ev = "rule" /\ log[j].key = refun[1].k /\ log[j].f = "g"

\* the keys of the rule handlers invoked since the last record was built
RECURSIVE TailRules(_)
TailRules(j) ==
    IF j = 0 \/ RecordAt(j) THEN <<>>
    ELSE IF log[j].ev = "rule" THEN Append(TailRules(j - 1), log[j].key)
    ELSE TailRules(j - 1)

\* the keys among the first n of the table whose rule matches the record
Matching(n) ==
    LET m == IF n < Len(refun) THEN n ELSE Len(refun)
    IN  SelectSeq(KeysOf(SubSeq(refun, 1, m)), Matches)

\* C13: for every record the handler of each matching rule is invoked once,
\* no other, in the order of the table, which is the order of insertion.
C13_TableOrder ==
    /\ [](/\ pc = "rules" => TailRules(Len(log)) = Matching(ki - 1)
          /\ pc = "in_rule" =>
                 Matches(refun[ki].k) /\ TailRules(Len(log)) = Matching(ki)
          /\ (pc = "record" /\ ri >= 1) =>
                 TailRules(Len(log)) = Matching(Len(refun)))
    /\ [][SubSeq(KeysOf(refun'), 1, Len(refun)) = KeysOf(refun)]_vars

\* C13 witness: two rules matched one record and both handlers were invoked
C13_Witness ==
    /\ pc = "record" /\ ri >= 1
    /\ Len(TailRules(Len(log))) = 2
    /\ Len(refun) = 2

\* C19: a range rule matches the counter idx iff idx is below the stop (if
\* any), not below the start, and idx - start is a multiple of |stride|.
C19_Range ==
    [][(pc = "rules" /\ ki <= Len(refun) /\ refun[ki].k.kind = "tuple3") =>
           (pc' = "in_rule" <=>
               InRange(refun[ki].k,
                       IF refun[ki].k.step[1] > 0 THEN NR ELSE FNR))]_vars

\* C19 witness: a rule with a negative stride fired on a counter above its
\* start
C19_Witness ==
    /\ pc = "in_rule"
    /\ refun[ki].k.kind = "tuple3"
    /\ refun[ki].k.step[1] < 0
    /\ FNR > refun[ki].k.start[1]

\* C14: a pattern rule on the record matches iff its regex is found in the
\* record's text as it is when the rule is evaluated, rewritten or not.
C14_CurrentText ==
    [][(pc = "rules" /\ ki <= Len(refun) /\ refun[ki].k.kind = "str") =>
           (pc' = "in_rule" <=>
               re_search(refun[ki].k.pat, str_of(record), IGNORECASE))]_vars

\* a record is being constructed in this step
Constructs == pc = "record" /\ ri' = ri + 1

\* the handler running in this step changes a separator
ChangesSeparator ==
    pc \in {"in_mid", "in_rule"} /\ (FS' # FS \/ RS' # RS)

\* C15 as claimed: a separator changed by a handler leaves the record being
\* dispatched as it is, and the next record constructed, in the same file
\* too, is delimited by the record separator and split by the field
\* separator as they are then.
C15_NextRecord ==
    [][/\ ChangesSeparator => UNCHANGED <<record, fields, NF>>
       /\ Constructs =>
              /\ re_split(RS, record'.s) = <<record'.s>>
              /\ fields' = SplitFields(FS, record'.s)]_vars

\* C15 amended: a separator changed by a handler leaves the record being
\* dispatched and the records the file was delimited to as they are; the
\* next record constructed is split by the field separator as it is then;
\* a file is delimited when it is opened, by the record separator as it is
\* then.
C15_NextFile ==
    [][/\ ChangesSeparator => UNCHANGED <<record, fields, NF, recs, ri>>
       /\ Constructs =>
              /\ record' = Str(recs[ri + 1])
              /\ fields' = SplitFields(FS, recs[ri + 1])
              /\ NF' = Len(fields')
              /\ recs' = recs
       /\ (pc = "open" /\ pc' = "record") =>
              recs' = re_split(RS, FileContent(fns[fi]))]_vars

\* C15 witness: after the handler of the first record of a file changed the
\* field separator to a comma, its second record is one field, though it
\* holds blanks
C15_Witness ==
    /\ pc = "in_rule" /\ ri = 2
    /\ \E j \in 1..Len(log) :
           log[j].ev = "FS" /\ log[j].file = fi /\ log[j].line = 1
    /\ lastcall.fs = DefaultFS /\ lastcall.asregex
    /\ FS = CommaFS
    /\ NF = 1
    /\ Len(SplitFields(DefaultFS, record.s)) = 2

\* C17: the default per-record hook writes, when a record is constructed,
\* the fields of the record joined with OFS and then ORS.
C17_DefaultHook ==
    [][(Constructs /\ mid = "print") =>
           output' =
               Append(output,
                      [text |-> Join([i \in 1..NF' |-> str_of(fields'[i])], OFS)
                                    \o DefaultORS,
                       to |-> stdout])]_vars

\* C20: a run sets the field separator to its separator argument, escaped
\* when the argument is declared literal, whatever the field separator was,
\* and leaves the record separator.
C20_RunSeparator ==
    [][(pc = "idle" /\ pc' # "idle") =>
           /\ FS' = IF lastcall'.asregex THEN lastcall'.fs
                    ELSE re_escape(lastcall'.fs)
           /\ RS' = RS]_vars

\* C20 witness: in a run with the literal separator "[ \t\n]+", after a run
\* whose handler had set a comma, a record with a blank is one field
C20_Witness ==
    /\ pc = "in_rule"
    /\ lastcall = [fs |-> DefaultFS, asregex |-> FALSE]
    /\ FS = EscapedDefaultFS
    /\ record.s = <<"a", " ", "1">>
    /\ NF = 1

\* C16: a reset while a redirection is recorded closes the sink and makes
\* the console the target, and no redirection is recorded any more; a reset
\* without one changes nothing; the console is never closed.
C16_Redirect ==
    /\ [](Console \notin closed)
    /\ [](old_stdout = <<>> => stdout = Console)
    /\ [][lastop'.op = "reset" =>
              IF old_stdout # <<>>
              THEN /\ closed' = closed \cup {stdout}
                   /\ stdout' = Console
                   /\ old_stdout' = <<>>
              ELSE UNCHANGED <<stdout, old_stdout, closed, opened>>]_vars

\* the j-th entry of the history is a registration, by a rule handler, that
\* made the rule table grow
NewInRule(j) ==
    /\ log[j].ev = "new"
    /\ \E i \in 1..(j - 1) :
           /\ log[i].ev = "rule"
           /\ \A k \in (i + 1)..j : log[k].ev \in {"new", "set"}

\* C21: once a rule handler has registered a rule under a new key, nothing
\* but registrations of that handler follows: no rule, no record, no END
\* hook, and the run ends with an error; a run ends with that error only
\* then, and up to then the rules evaluated for a record are the matching
\* rules of the table in its order.
C21_Registration ==
    /\ \A j \in 1..Len(log) :
           NewInRule(j) =>
               /\ \A k \in (j + 1)..Len(log) : log[k].ev \in {"new", "set"}
               /\ pc \in {"in_rule", "rules", "error"}
               /\ pc = "error" => err = "RuntimeError"
    /\ err = "RuntimeError" => \E j \in 1..Len(log) : NewInRule(j)
    /\ pc = "rules" => TailRules(Len(log)) = Matching(ki - 1)
    /\ pc = "in_rule" => TailRules(Len(log)) = Matching(ki)
    /\ (pc = "record" /\ ri >= 1) => TailRules(Len(log)) = Matching(Len(refun))

\* C21 witness: the run was aborted after the first of two matching rules,
\* whose handler had registered a third, with an END hook set and a record
\* left in the file
C21_Witness ==
    /\ pc = "error" /\ err = "RuntimeError"
    /\ end # None
    /\ Len(refun) = 3 /\ ki = 2
    /\ Matches(refun[2].k)
    /\ ri < Len(recs)
    /\ \A j \in 1..Len(log) : log[j].ev # "end"

\* the occurrences in s of a separator p that matches one character
Occurrences(p, s) == Cardinality({i \in 1..Len(s) : s[i] \in PatChars(p)})

\* the content s is empty or ends with the separator p
EndsWith(p, s) == s = <<>> \/ s[Len(s)] \in PatChars(p)

\* the file being read is at its last record
AtLastRecord == pc \in {"in_mid", "rules", "in_rule"} /\ ri = Len(recs)

\* C22: a file that was read has dispatched one record more than its content
\* has record separators; the last record of an empty file, or of one that
\* ends with the separator, is the empty record; every record constructed
\* increments both counters, is offered to the per-record hook if there is
\* one, and to every rule.
C22_RecordCount ==
    /\ [](\A i \in 1..Len(fns) :
              (pc = "done" \/ (pc \in {"open", "record"} /\ fi > i)) =>
                  FilePos(Len(log), i) =
                      Occurrences(RS, FileContent(fns[i])) + 1)
    /\ []((AtLastRecord /\ EndsWith(RS, FileContent(fns[fi]))) =>
              record = Str(<<>>))
    /\ []((pc = "record" /\ ri >= 1) =>
              TailRules(Len(log)) = Matching(Len(refun)))
    /\ [][Constructs =>
              /\ NR' = NR + 1 /\ FNR' = FNR + 1
              /\ mid # None => log'[Len(log')].ev = "mid"
              /\ \E j \in 1..Len(log') :
                     log'[j] = EventAt("record", NoKey, fi, ri + 1)]_vars

\* C22 witness: the rule for every record is invoked for the empty record
\* that ends the file "a\n", after an empty file gave one record
C22_Witness ==
    /\ pc = "in_rule"
    /\ fns = <<"empty", "trail">> /\ fi = 2 /\ ri = 2
    /\ record = Str(<<>>) /\ NF = 1
    /\ FilePos(Len(log), 1) = 1
    /\ mid # None

====
